---------------------------- MODULE Spec2Model ----------------------------
(***************************************************************************)
(* Model of rename_images_to_timestamps.py: a batch run that lists the     *)
(* media files below ./images, reads their metadata, derives a timestamp   *)
(* file name and renames each file, resolving collisions.                  *)
(*                                                                         *)
(* Strings are sequences of tokens.  The tokens "." and "/" are the        *)
(* characters str.split(".") and os.path.dirname cut at, ":", " " and "+"  *)
(* are the separators of a date string; every other token is a maximal run *)
(* of other characters.  Two strings are equal iff their token sequences   *)
(* are.  A counter suffix " (N)" is a token of its own.  A file's content  *)
(* is its embedded EXIF date plus a body; the file-system dates are        *)
(* attributes of the file, not content.                                    *)
(***************************************************************************)
EXTENDS Integers, Sequences, FiniteSets, TLC

VARIABLES fs, fs_start, run, pc, err, valid_files, invalid_files, idx,
          main_new_filename, old_filename, new_filename, i, ret,
          modify_datetime, create_datetime, wrong, uncontended, metadata

vars == <<fs, fs_start, run, pc, err, valid_files, invalid_files, idx,
          main_new_filename, old_filename, new_filename, i, ret,
          modify_datetime, create_datetime, wrong, uncontended, metadata>>

(***************************************************************************)
(* Bounds of the model.                                                    *)
(***************************************************************************)
\* files in the directory tree at the start of a run
MaxFiles == 3
\* distinct bodies a file with a given EXIF date may have
MaxBody == 2
\* wrong answers the operator gives to one prompt
MaxWrong == 1
\* runs of the tool in a row (SpecTwice)
MaxRuns == 2
\* records handed to the classifier (SpecClassify)
MaxRecs == 3

(***************************************************************************)
(* String helpers.                                                         *)
(***************************************************************************)
DOT == "."
SEP == "/"

None == <<>>
Some(v) == <<v>>

\* positions of token t in s
Positions(s, t) == {k \in 1..Len(s) : s[k] = t}

Min(S) == CHOOSE k \in S : \A j \in S : k <= j
Max(S) == CHOOSE k \in S : \A j \in S : k >= j

\* str.split(t): the pieces of s between the occurrences of t
RECURSIVE Split(_, _)
Split(s, t) ==
    IF Positions(s, t) = {} THEN <<s>>
    ELSE LET k == Min(Positions(s, t))
         IN  <<SubSeq(s, 1, k - 1)>> \o Split(SubSeq(s, k + 1, Len(s)), t)

\* pieces[-n] of Python
FromEnd(pieces, n) == pieces[Len(pieces) + 1 - n]

\* str.lower() on the tokens of the pools
LowerTok(t) ==
    CASE t = "JPG" -> "jpg"
      [] t = "PNG" -> "png"
      [] t = "TXT" -> "txt"
      [] t = "M" -> "m"
      [] t = "C" -> "c"
      [] t = "O" -> "o"
      [] OTHER -> t

UpperTok(t) ==
    CASE t = "m" -> "M"
      [] t = "c" -> "C"
      [] t = "o" -> "O"
      [] t = "jpg" -> "JPG"
      [] OTHER -> t

Lower(s) == [k \in 1..Len(s) |-> LowerTok(s[k])]

\* os.path.dirname: what precedes the last separator
dirname(p) ==
    IF Positions(p, SEP) = {} THEN <<>>
    ELSE SubSeq(p, 1, Max(Positions(p, SEP)) - 1)

\* os.path.basename: what follows the last separator
basename(p) ==
    IF Positions(p, SEP) = {} THEN p
    ELSE SubSeq(p, Max(Positions(p, SEP)) + 1, Len(p))

(***************************************************************************)
(* Dates: datetime.strptime(s, "%Y:%m:%d %H:%M:%S") and strftime.          *)
(***************************************************************************)
\* the digits of a numeric token: <<number of digits, value>>; <<0, 0>> for
\* a token that is not all digits
Digits(t) ==
    CASE t = "0000" -> <<4, 0>>
      [] t = "2020" -> <<4, 2020>>
      [] t = "2021" -> <<4, 2021>>
      [] t = "2022" -> <<4, 2022>>
      [] t = "00" -> <<2, 0>>
      [] t = "01" -> <<2, 1>>
      [] t = "02" -> <<2, 2>>
      [] t = "03" -> <<2, 3>>
      [] t = "04" -> <<2, 4>>
      [] t = "05" -> <<2, 5>>
      [] t = "11" -> <<2, 11>>
      [] t = "12" -> <<2, 12>>
      [] t = "23" -> <<2, 23>>
      [] t = "31" -> <<2, 31>>
      [] t = "34" -> <<2, 34>>
      [] t = "56" -> <<2, 56>>
      [] t = "59" -> <<2, 59>>
      [] OTHER -> <<0, 0>>

IsLeap(y) == (y % 4 = 0 /\ y % 100 # 0) \/ y % 400 = 0

DaysIn(y, m) ==
    IF m \in {4, 6, 9, 11} THEN 30
    ELSE IF m = 2 THEN (IF IsLeap(y) THEN 29 ELSE 28)
    ELSE 31

\* a numeric field of the format: 1..maxdigits digits (exactly 4 for %Y)
FieldOk(t, mindigits, maxdigits, lo, hi) ==
    /\ Digits(t)[1] >= mindigits
    /\ Digits(t)[1] <= maxdigits
    /\ Digits(t)[2] >= lo
    /\ Digits(t)[2] <= hi

\* whether strptime accepts s (otherwise it raises ValueError)
ParseOk(s) ==
    /\ Len(s) = 11
    /\ s[2] = ":" /\ s[4] = ":" /\ s[6] = " " /\ s[8] = ":" /\ s[10] = ":"
    /\ FieldOk(s[1], 4, 4, 1, 9999)
    /\ FieldOk(s[3], 1, 2, 1, 12)
    /\ FieldOk(s[5], 1, 2, 1, DaysIn(Digits(s[1])[2], Digits(s[3])[2]))
    /\ FieldOk(s[7], 1, 2, 0, 23)
    /\ FieldOk(s[9], 1, 2, 0, 59)
    /\ FieldOk(s[11], 1, 2, 0, 59)

get_datetime(s) ==
    [year |-> Digits(s[1])[2], month |-> Digits(s[3])[2], day |-> Digits(s[5])[2],
     hour |-> Digits(s[7])[2], minute |-> Digits(s[9])[2], second |-> Digits(s[11])[2]]

\* n as a decimal string of at least w digits
RECURSIVE Pad(_, _)
Pad(n, w) ==
    IF w <= 1 \/ n >= 10 ^ (w - 1) THEN ToString(n)
    ELSE "0" \o Pad(n, w - 1)

get_filename_from_datetime(dt) ==
    Pad(dt.year, 4) \o Pad(dt.month, 2) \o Pad(dt.day, 2) \o "_"
        \o Pad(dt.hour, 2) \o Pad(dt.minute, 2) \o Pad(dt.second, 2)

\* date_string.split("+", 1)[0]
cut_out_time_zone(s) == Split(s, "+")[1]

(***************************************************************************)
(* The file system and the metadata collaborator.                          *)
(***************************************************************************)
multimediaFormats == {"png", "jpg", "jpeg", "m4v", "mov", "mp4"}

DateTimeOriginal == "EXIF:DateTimeOriginal"
FileModifyDate == "File:FileModifyDate"
FileCreateDate == "File:FileCreateDate"

SENTINEL == <<"0000", ":", "00", ":", "00", " ", "00", ":", "00", ":", "00">>

\* the root the script walks, and a subdirectory whose name holds a dot
IMAGES == <<".", "/", "images">>
SUBDIR == IMAGES \o <<"/", "v1", ".", "2">>

\* the directories that exist; the script neither makes nor removes one
Dirs == {<<".">>, IMAGES, SUBDIR}

\* os.path.exists
Exists(p) == p \in DOMAIN fs \/ p \in Dirs

\* the bytes open(path, "rb").read() returns: the embedded date and the body
Bytes(f) == <<f.dto, f.body>>

\* files_are_identical, both paths being files
files_are_identical(file1_path, file2_path) ==
    Bytes(fs[file1_path]) = Bytes(fs[file2_path])

\* the function f without p
Remove(f, p) == [q \in DOMAIN f \ {p} |-> f[q]]

\* os.rename(p, q) with q absent
Rename(f, p, q) == [r \in (DOMAIN f \ {p}) \cup {q} |-> IF r = q THEN f[p] ELSE f[r]]

\* the files directly in the directory dir
FilesIn(dir) == {p \in DOMAIN fs : dirname(p) = dir}

\* the test of list_files on one file name
IsMultimedia(file) == Lower(FromEnd(Split(file, DOT), 1)) \in {<<x>> : x \in multimediaFormats}

\* the sequences that hold every element of S once
Orderings(S) ==
    {s \in [1..Cardinality(S) -> S] : \A a, b \in 1..Cardinality(S) : a # b => s[a] # s[b]}

\* the directories os.walk visits from the root, top down
WalkDirs == <<IMAGES, SUBDIR>>

\* the lists list_files may return from directory k of the walk on: the
\* directories in the order of the walk, the files of one directory in any
\* order (os.walk fixes none)
RECURSIVE ListFrom(_)
ListFrom(k) ==
    IF k > Len(WalkDirs) THEN {<<>>}
    ELSE {here \o below :
            here \in Orderings({p \in FilesIn(WalkDirs[k]) : IsMultimedia(basename(p))}),
            below \in ListFrom(k + 1)}

list_files == ListFrom(1)

EmptyRecord == [x \in {} |-> <<>>]

Tag(name, opt) == IF opt = None THEN EmptyRecord ELSE name :> opt[1]

\* the record the extraction tool returns for the file f at path p
MetadataOf(p, f) ==
    ("SourceFile" :> p) @@ Tag(DateTimeOriginal, f.dto)
        @@ Tag(FileModifyDate, f.fmd) @@ Tag(FileCreateDate, f.fcd)

get_metadata(paths) == [k \in 1..Len(paths) |-> MetadataOf(paths[k], fs[paths[k]])]

(***************************************************************************)
(* find_files_with_datetimeoriginal_metadata.                              *)
(***************************************************************************)
\* a classifier that forgets the sentinel
HasDateTimeOriginal_NoSentinel(data) == DateTimeOriginal \in DOMAIN data

HasDateTimeOriginal(data) ==
    /\ DateTimeOriginal \in DOMAIN data
    /\ data[DateTimeOriginal] # SENTINEL

\* one iteration of the loop over the records; acc is <<valid, invalid>>
ClassifyOne(acc, data) ==
    IF HasDateTimeOriginal(data)
    THEN <<Append(acc[1], data), acc[2]>>
    ELSE <<acc[1], Append(acc[2], data)>>

RECURSIVE ClassifyFrom(_, _, _)
ClassifyFrom(acc, records, k) ==
    IF k > Len(records) THEN acc
    ELSE ClassifyFrom(ClassifyOne(acc, records[k]), records, k + 1)

find_files_with_datetimeoriginal_metadata(paths) ==
    ClassifyFrom(<<<<>>, <<>>>>, get_metadata(paths), 1)

(***************************************************************************)
(* File names.                                                             *)
(***************************************************************************)
\* a deriver that keeps the case of the extension
get_new_filename_KeepCase(file, dt) ==
    dirname(file["SourceFile"]) \o <<SEP>> \o <<get_filename_from_datetime(dt)>>
        \o <<DOT>> \o FromEnd(Split(file["SourceFile"], DOT), 1)

get_new_filename(file, dt) ==
    dirname(file["SourceFile"]) \o <<SEP>> \o <<get_filename_from_datetime(dt)>>
        \o <<DOT>> \o Lower(FromEnd(Split(file["SourceFile"], DOT), 1))

\* the candidate change_filename_until_success builds when i # 1
Suffixed(name, n) ==
    <<DOT>> \o FromEnd(Split(name, DOT), 2) \o <<" (" \o ToString(n) \o ")">>
        \o <<DOT>> \o FromEnd(Split(name, DOT), 1)

\* the candidate of the current iteration
Candidate == IF i # 1 THEN Suffixed(new_filename, i) ELSE new_filename

(***************************************************************************)
(* The directories a run may start from.                                   *)
(***************************************************************************)
D1 == <<"2021", ":", "05", ":", "11", " ", "12", ":", "34", ":", "56">>
D2 == <<"2022", ":", "01", ":", "02", " ", "03", ":", "04", ":", "05">>
D3 == <<"2020", ":", "12", ":", "31", " ", "23", ":", "59", ":", "59">>
PlusZone == <<"+", "02:00">>
MinusZone == <<"-05:00">>

PathPool ==
    { IMAGES \o <<"/", "a", ".", "JPG">>,
      IMAGES \o <<"/", "20210511_123456", ".", "jpg">>,
      IMAGES \o <<"/", "20210511_123456", " (2)", ".", "jpg">>,
      SUBDIR \o <<"/", "c", ".", "jpg">>,
      SUBDIR \o <<"/", "d", ".", "jpg">>,
      IMAGES \o <<"/", "notes", ".", "txt">> }

File(dto, body, fmd, fcd) == [dto |-> dto, body |-> body, fmd |-> fmd, fcd |-> fcd]

PlainFile == File(None, 1, None, None)

\* what a media file of the root may be
FileKinds ==
    {File(Some(D1), b, None, None) : b \in 1..MaxBody}
    \cup { File(Some(D1 \o PlusZone), 1, None, None),
           File(Some(SENTINEL), 1, None, None),
           File(Some(SENTINEL), 1, Some(D2 \o PlusZone), None),
           File(Some(SENTINEL), 1, None, Some(D3 \o PlusZone)),
           File(Some(SENTINEL), 1, Some(D2 \o PlusZone), Some(D3 \o PlusZone)),
           File(None, 1, Some(D2 \o MinusZone), Some(D3 \o PlusZone)),
           PlainFile }

\* the files the pools put at path p
KindsAt(p) ==
    IF ~IsMultimedia(basename(p)) THEN {PlainFile}
    ELSE IF dirname(p) = SUBDIR THEN {File(Some(D1), b, None, None) : b \in 1..MaxBody}
    ELSE FileKinds

\* the ways to put files at the paths of S
RECURSIVE Populate(_)
Populate(S) ==
    IF S = {} THEN {EmptyRecord}
    ELSE LET p == CHOOSE q \in S : TRUE
         IN  {(p :> k) @@ f : k \in KindsAt(p), f \in Populate(S \ {p})}

Directories ==
    UNION {Populate(S) : S \in {T \in SUBSET PathPool : Cardinality(T) <= MaxFiles}}

(***************************************************************************)
(* main: the state after the logging set-up.                               *)
(***************************************************************************)
Init ==
    /\ fs \in Directories
    /\ fs_start = fs
    /\ run = 1
    /\ pc = "start"
    /\ err = None
    /\ metadata = <<>>
    /\ valid_files = <<>>
    /\ invalid_files = <<>>
    /\ idx = 1
    /\ main_new_filename = None
    /\ old_filename = <<>>
    /\ new_filename = <<>>
    /\ i = 1
    /\ ret = "none"
    /\ modify_datetime = None
    /\ create_datetime = None
    /\ wrong = 0
    /\ uncontended = {}

loopvars == <<old_filename, new_filename, i, ret>>
promptvars == <<modify_datetime, create_datetime, wrong>>
listvars == <<metadata, valid_files, invalid_files>>

\* an exception nothing catches ends the run; err is its type and the
\* line of the script that raised it
Raise(e, line) ==
    /\ pc' = "crashed"
    /\ err' = <<e, line>>

\* rename_file_if_necessary called for the record at idx of the loop `back`
rename_file_if_necessary(old, new, back) ==
    IF old = new
    THEN /\ pc' = back
         /\ idx' = idx + 1
         /\ UNCHANGED <<err, loopvars>>
    ELSE /\ pc' = "rename_loop"
         /\ old_filename' = old
         /\ new_filename' = new
         /\ i' = 1
         /\ ret' = back
         /\ UNCHANGED <<err, idx>>

\* main, lines 310-311: list the files and classify their records
Main_Start ==
    /\ pc = "start"
    /\ \E old_paths \in list_files :
          /\ valid_files' = find_files_with_datetimeoriginal_metadata(old_paths)[1]
          /\ invalid_files' = find_files_with_datetimeoriginal_metadata(old_paths)[2]
    /\ pc' = "valid_loop"
    /\ idx' = 1
    /\ UNCHANGED <<fs, fs_start, run, err, metadata, main_new_filename, loopvars, promptvars, uncontended>>

\* the record the current loop is at
CurrentValid == valid_files[idx]
CurrentInvalid == invalid_files[idx]

\* main, lines 315-326, one file of valid_files: a date that does not parse
\* leaves new_filename as the previous iteration set it
NewFilenameAfterTry(file) ==
    IF ParseOk(file[DateTimeOriginal])
    THEN Some(get_new_filename(file, get_datetime(file[DateTimeOriginal])))
    ELSE main_new_filename

\* whether the file's own target is its own path or a free path
Uncontended(file) ==
    /\ ParseOk(file[DateTimeOriginal])
    /\ LET target == get_new_filename(file, get_datetime(file[DateTimeOriginal]))
       IN  target = file["SourceFile"] \/ ~Exists(target)

Valid_Iter ==
    /\ pc = "valid_loop"
    /\ idx <= Len(valid_files)
    /\ NewFilenameAfterTry(CurrentValid) # None
    /\ main_new_filename' = NewFilenameAfterTry(CurrentValid)
    /\ rename_file_if_necessary(CurrentValid["SourceFile"], NewFilenameAfterTry(CurrentValid)[1], "valid_loop")
    /\ uncontended' = IF Uncontended(CurrentValid)
                      THEN uncontended \cup {CurrentValid["SourceFile"]}
                      ELSE uncontended
    /\ UNCHANGED <<fs, fs_start, run, listvars, promptvars>>

\* line 326 reads new_filename, which no iteration has set yet
Valid_Unbound ==
    /\ pc = "valid_loop"
    /\ idx <= Len(valid_files)
    /\ NewFilenameAfterTry(CurrentValid) = None
    /\ Raise("UnboundLocalError", 326)
    /\ UNCHANGED <<fs, fs_start, run, listvars, idx, main_new_filename, loopvars, promptvars, uncontended>>

\* the valid files are done: line 328
Valid_End ==
    /\ pc = "valid_loop"
    /\ idx > Len(valid_files)
    /\ pc' = "invalid_loop"
    /\ idx' = 1
    /\ UNCHANGED <<fs, fs_start, run, err, listvars, main_new_filename, loopvars, promptvars, uncontended>>

(***************************************************************************)
(* change_filename_until_success: one action per way through an iteration. *)
(***************************************************************************)
\* break, and the return to the loop of main that called
Return ==
    /\ pc' = ret
    /\ idx' = idx + 1
    /\ old_filename' = <<>>
    /\ new_filename' = <<>>
    /\ i' = 1
    /\ ret' = "none"
    /\ UNCHANGED err

loopframe == <<fs_start, run, listvars, main_new_filename, promptvars, uncontended>>

\* lines 65-66, 72-73: the candidate exists and differs
Loop_Differs ==
    /\ pc = "rename_loop"
    /\ Exists(Candidate)
    /\ old_filename \in DOMAIN fs /\ Candidate \in DOMAIN fs
    /\ ~files_are_identical(old_filename, Candidate)
    /\ new_filename' = Candidate
    /\ i' = i + 1
    /\ UNCHANGED <<fs, pc, err, idx, old_filename, ret, loopframe>>

\* lines 65-71: the candidate exists and is identical; the loop goes on
Loop_Identical ==
    /\ pc = "rename_loop"
    /\ Exists(Candidate)
    /\ old_filename \in DOMAIN fs /\ Candidate \in DOMAIN fs
    /\ files_are_identical(old_filename, Candidate)
    /\ fs' = Remove(fs, old_filename)
    /\ new_filename' = Candidate
    /\ UNCHANGED <<pc, err, idx, old_filename, i, ret, loopframe>>

\* lines 65-66, 24-26: open() of a path that is no file
Loop_OpenFails ==
    /\ pc = "rename_loop"
    /\ Exists(Candidate)
    /\ old_filename \notin DOMAIN fs \/ Candidate \notin DOMAIN fs
    /\ new_filename' = Candidate
    /\ Raise(IF old_filename \notin DOMAIN fs THEN "FileNotFoundError" ELSE "IsADirectoryError", 24)
    /\ UNCHANGED <<fs, idx, old_filename, i, ret, loopframe>>

\* a rename that does not ask whether the candidate exists
Loop_Rename_Overwrite ==
    /\ pc = "rename_loop"
    /\ Exists(old_filename)
    /\ dirname(Candidate) \in Dirs
    /\ fs' = Rename(fs, old_filename, Candidate)
    /\ Return
    /\ UNCHANGED loopframe

\* lines 74-77, 80: the candidate is free and old_filename is renamed onto it
Loop_Rename ==
    /\ pc = "rename_loop"
    /\ ~Exists(Candidate)
    /\ Exists(old_filename)
    /\ dirname(Candidate) \in Dirs
    /\ fs' = Rename(fs, old_filename, Candidate)
    /\ Return
    /\ UNCHANGED loopframe

\* line 76: os.rename into a directory that does not exist
Loop_RenameFails ==
    /\ pc = "rename_loop"
    /\ ~Exists(Candidate)
    /\ Exists(old_filename)
    /\ dirname(Candidate) \notin Dirs
    /\ new_filename' = Candidate
    /\ Raise("FileNotFoundError", 76)
    /\ UNCHANGED <<fs, idx, old_filename, i, ret, loopframe>>

\* lines 78-80: the candidate is free and old_filename is gone
Loop_OldGone ==
    /\ pc = "rename_loop"
    /\ ~Exists(Candidate)
    /\ ~Exists(old_filename)
    /\ Return
    /\ UNCHANGED <<fs, loopframe>>

(***************************************************************************)
(* main, lines 329-344, and rename_file_if_any_date_metadata_exists.       *)
(***************************************************************************)
OptionalDate(file, tag) ==
    IF tag \in DOMAIN file THEN Some(cut_out_time_zone(file[tag])) ELSE None

file_modify_date == OptionalDate(CurrentInvalid, FileModifyDate)
file_create_date == OptionalDate(CurrentInvalid, FileCreateDate)

invalidframe == <<fs, fs_start, run, listvars, main_new_filename, uncontended>>

\* lines 153-159: both dates are there and parse; the operator is asked
Invalid_Both ==
    /\ pc = "invalid_loop"
    /\ idx <= Len(invalid_files)
    /\ file_modify_date # None /\ file_create_date # None
    /\ ParseOk(file_modify_date[1]) /\ ParseOk(file_create_date[1])
    /\ modify_datetime' = Some(get_datetime(file_modify_date[1]))
    /\ create_datetime' = Some(get_datetime(file_create_date[1]))
    /\ pc' = "prompt"
    /\ UNCHANGED <<err, idx, loopvars, wrong, invalidframe>>

\* lines 154-155: get_datetime raises ValueError, which nothing catches
Invalid_BothUnparsed ==
    /\ pc = "invalid_loop"
    /\ idx <= Len(invalid_files)
    /\ file_modify_date # None /\ file_create_date # None
    /\ ~(ParseOk(file_modify_date[1]) /\ ParseOk(file_create_date[1]))
    /\ Raise("ValueError", 218)
    /\ UNCHANGED <<idx, loopvars, promptvars, invalidframe>>

\* lines 182-189: one date only; modify_datetime and create_datetime are
\* assigned in the first branch alone, so reading them here raises
Invalid_One ==
    /\ pc = "invalid_loop"
    /\ idx <= Len(invalid_files)
    /\ (file_modify_date = None) # (file_create_date = None)
    /\ Raise("UnboundLocalError", IF file_modify_date # None THEN 184 ELSE 188)
    /\ UNCHANGED <<idx, loopvars, promptvars, invalidframe>>

\* lines 190-193: no date at all
Invalid_Neither ==
    /\ pc = "invalid_loop"
    /\ idx <= Len(invalid_files)
    /\ file_modify_date = None /\ file_create_date = None
    /\ idx' = idx + 1
    /\ UNCHANGED <<pc, err, loopvars, promptvars, invalidframe>>

\* what the operator may type
Options == {"M", "c", "O", "x"}

\* lines 161-180: one answer of the operator
Prompt_Rename ==
    /\ pc = "prompt"
    /\ \E option \in Options :
          /\ UpperTok(option) \in {"M", "C"}
          /\ rename_file_if_necessary(
                CurrentInvalid["SourceFile"],
                get_new_filename(CurrentInvalid,
                    IF UpperTok(option) = "M" THEN modify_datetime[1] ELSE create_datetime[1]),
                "invalid_loop")
    /\ modify_datetime' = None
    /\ create_datetime' = None
    /\ wrong' = 0
    /\ UNCHANGED invalidframe

Prompt_Old ==
    /\ pc = "prompt"
    /\ \E option \in Options : UpperTok(option) = "O"
    /\ pc' = "invalid_loop"
    /\ idx' = idx + 1
    /\ modify_datetime' = None
    /\ create_datetime' = None
    /\ wrong' = 0
    /\ UNCHANGED <<err, loopvars, invalidframe>>

Prompt_Wrong ==
    /\ pc = "prompt"
    /\ wrong < MaxWrong
    /\ \E option \in Options : UpperTok(option) \notin {"M", "C", "O"}
    /\ wrong' = wrong + 1
    /\ UNCHANGED <<pc, err, idx, loopvars, modify_datetime, create_datetime, invalidframe>>

\* the invalid files are done: main returns
Invalid_End ==
    /\ pc = "invalid_loop"
    /\ idx > Len(invalid_files)
    /\ pc' = "done"
    /\ UNCHANGED <<fs, fs_start, run, err, listvars, idx, main_new_filename, loopvars, promptvars, uncontended>>

Next ==
    \/ Main_Start
    \/ Valid_Iter
    \/ Valid_Unbound
    \/ Valid_End
    \/ Loop_Differs
    \/ Loop_Identical
    \/ Loop_OpenFails
    \/ Loop_Rename
    \/ Loop_RenameFails
    \/ Loop_OldGone
    \/ Invalid_Both
    \/ Invalid_BothUnparsed
    \/ Invalid_One
    \/ Invalid_Neither
    \/ Prompt_Rename
    \/ Prompt_Old
    \/ Prompt_Wrong
    \/ Invalid_End

Spec == Init /\ [][Next]_vars

(***************************************************************************)
(* Two runs in a row: the tool is started again on what a run that ended   *)
(* normally left behind.                                                   *)
(***************************************************************************)
Rerun ==
    /\ pc = "done"
    /\ run < MaxRuns
    /\ run' = run + 1
    /\ fs_start' = fs
    /\ pc' = "start"
    /\ valid_files' = <<>>
    /\ invalid_files' = <<>>
    /\ idx' = 1
    /\ main_new_filename' = None
    /\ uncontended' = {}
    /\ UNCHANGED <<fs, err, metadata, loopvars, promptvars>>

NextTwice ==
    \/ Next
    \/ Rerun

SpecTwice == Init /\ [][NextTwice]_vars

(***************************************************************************)
(* The classifier alone, on the records the collaborator may return.       *)
(***************************************************************************)
\* the path of the k-th record
RecordPath(k) == IMAGES \o <<"/", "f" \o ToString(k), ".", "jpg">>

\* the EXIF tag of a record: missing, empty, the sentinel, a date, a date
\* with a zone
RecordTags == {None, Some(<<>>), Some(SENTINEL), Some(D1), Some(D1 \o PlusZone)}

RecordLists ==
    UNION { {[k \in 1..n |-> MetadataOf(RecordPath(k), File(tags[k], 1, None, None))]
                : tags \in [1..n -> RecordTags]}
            : n \in 0..MaxRecs }

InitClassify ==
    /\ metadata \in RecordLists
    /\ pc = "classify"
    /\ valid_files = <<>>
    /\ invalid_files = <<>>
    /\ idx = 1
    /\ fs = EmptyRecord
    /\ fs_start = EmptyRecord
    /\ run = 1
    /\ err = None
    /\ main_new_filename = None
    /\ old_filename = <<>>
    /\ new_filename = <<>>
    /\ i = 1
    /\ ret = "none"
    /\ modify_datetime = None
    /\ create_datetime = None
    /\ wrong = 0
    /\ uncontended = {}

classifyframe == <<fs, fs_start, run, err, metadata, main_new_filename, loopvars, promptvars, uncontended>>

\* lines 119-126: one record
Classify_Step ==
    /\ pc = "classify"
    /\ idx <= Len(metadata)
    /\ valid_files' = ClassifyOne(<<valid_files, invalid_files>>, metadata[idx])[1]
    /\ invalid_files' = ClassifyOne(<<valid_files, invalid_files>>, metadata[idx])[2]
    /\ idx' = idx + 1
    /\ UNCHANGED <<pc, classifyframe>>

\* line 128
Classify_Return ==
    /\ pc = "classify"
    /\ idx > Len(metadata)
    /\ pc' = "classified"
    /\ UNCHANGED <<valid_files, invalid_files, idx, classifyframe>>

NextClassify ==
    \/ Classify_Step
    \/ Classify_Return

SpecClassify == InitClassify /\ [][NextClassify]_vars

(***************************************************************************)
(* The claims.                                                             *)
(***************************************************************************)
\* the time stamps the dates of the pools stand for, spelled out
Stamps == {"20210511_123456", "20220102_030405", "20201231_235959"}

\* the counter suffixes " (N)"
Counters == {" (" \o ToString(n) \o ")" : n \in 1..(MaxFiles + 2)}

\* a file name of the form <timestamp>.<ext> or <timestamp> (N).<ext>
WellFormed(name) ==
    \/ /\ Len(name) = 3
       /\ name[1] \in Stamps /\ name[2] = DOT /\ name[3] \in multimediaFormats
    \/ /\ Len(name) = 4
       /\ name[1] \in Stamps /\ name[2] \in Counters
       /\ name[3] = DOT /\ name[4] \in multimediaFormats

\* C1: no step of a run loses data: every content some file held when the
\* run began is still held by some file.
C1_NoDataLoss ==
    \A p \in DOMAIN fs_start :
        \E q \in DOMAIN fs : Bytes(fs[q]) = Bytes(fs_start[p])

\* C3: when the candidate is another file, byte-identical to old_filename,
\* the routine deletes old_filename, leaves the candidate alone and returns
\* without an error.
C3_DuplicateStops ==
    [][(/\ pc = "rename_loop"
        /\ old_filename \in DOMAIN fs
        /\ Candidate \in DOMAIN fs
        /\ Candidate # old_filename
        /\ files_are_identical(old_filename, Candidate))
       => (/\ fs' = [q \in DOMAIN fs \ {old_filename} |-> fs[q]]
           /\ pc' = ret
           /\ err' = None)]_vars

\* C4: every file a run has given a new name carries a name of the form
\* <timestamp>.<ext> or <timestamp> (N).<ext>, with one counter suffix at most.
C4_NameForm ==
    \A p \in DOMAIN fs \ DOMAIN fs_start : WellFormed(basename(p))

\* the name the specification gives a file of the pools dated d: its own
\* directory, the time stamp, the extension in lower case
C2_Stamp(d) ==
    CASE d = D1 -> "20210511_123456"
      [] d = D2 -> "20220102_030405"
      [] d = D3 -> "20201231_235959"

C2_Target(src, d) ==
    (IF Len(src) > Len(SUBDIR) /\ SubSeq(src, 1, Len(SUBDIR)) = SUBDIR THEN SUBDIR ELSE IMAGES)
        \o <<"/", C2_Stamp(d), ".", "jpg">>

\* C2, as stated: after the run every file with a parseable capture date
\* is at its target name.
C2_AlwaysTarget ==
    pc = "done" =>
        \A k \in 1..Len(valid_files) :
            ParseOk(valid_files[k][DateTimeOriginal]) =>
                /\ C2_Target(valid_files[k]["SourceFile"], valid_files[k][DateTimeOriginal]) \in DOMAIN fs
                /\ fs[C2_Target(valid_files[k]["SourceFile"], valid_files[k][DateTimeOriginal])]
                       = fs_start[valid_files[k]["SourceFile"]]

\* C2, amended: a file with a parseable capture date whose target name is
\* its own or is free when the file is processed is at the target name once
\* it is processed, and stays there.
C2_TargetWhenFree ==
    \A k \in 1..Len(valid_files) :
        (/\ valid_files[k]["SourceFile"] \in uncontended
         /\ ~(pc = "rename_loop" /\ old_filename = valid_files[k]["SourceFile"]))
        => LET src == valid_files[k]["SourceFile"]
               target == C2_Target(src, valid_files[k][DateTimeOriginal])
           IN  /\ target \in DOMAIN fs
               /\ fs[target] = fs_start[src]

\* a.JPG was renamed to 20210511_123456.jpg and the run has ended
C2_Witness ==
    /\ pc = "done"
    /\ IMAGES \o <<"/", "a", ".", "JPG">> \in uncontended
    /\ IMAGES \o <<"/", "a", ".", "JPG">> \notin DOMAIN fs
    /\ IMAGES \o <<"/", "20210511_123456", ".", "jpg">> \in DOMAIN fs

\* the records no prompt is shown for
AsksNothing(records) ==
    \A k \in 1..Len(records) :
        ~(FileModifyDate \in DOMAIN records[k] /\ FileCreateDate \in DOMAIN records[k])

\* C5: a second run right after a first one renames nothing and deletes
\* nothing (a run that asks the operator nothing, whose answers are inputs).
C5_SecondRunNoOp ==
    (run >= 2 /\ AsksNothing(invalid_files)) => fs = fs_start

\* C6: a file of the valid list whose date does not parse is skipped: it
\* stays where it is, no error escapes, no rename is tried for it.
C6_Skipped ==
    /\ \A k \in 1..Len(valid_files) :
          ~ParseOk(valid_files[k][DateTimeOriginal]) =>
              /\ valid_files[k]["SourceFile"] \in DOMAIN fs
              /\ fs[valid_files[k]["SourceFile"]] = fs_start[valid_files[k]["SourceFile"]]
    /\ err # <<"UnboundLocalError", 326>>
    /\ (pc = "rename_loop" /\ ret = "valid_loop") => ParseOk(CurrentValid[DateTimeOriginal])

\* the date of a fallback tag without its zone
C7_Date(s) == SubSeq(s, 1, 11)

\* C7: with one fallback date the file is renamed by it, without a prompt;
\* with none it is left alone; no error is raised.
C7_Fallback ==
    /\ err \notin {<<"UnboundLocalError", 184>>, <<"UnboundLocalError", 188>>}
    /\ pc = "prompt" =>
          (FileModifyDate \in DOMAIN CurrentInvalid /\ FileCreateDate \in DOMAIN CurrentInvalid)
    /\ pc \in {"invalid_loop", "done"} =>
          \A k \in 1..(idx - 1) :
              LET r == invalid_files[k]
                  src == r["SourceFile"]
              IN  /\ (FileModifyDate \in DOMAIN r /\ FileCreateDate \notin DOMAIN r) =>
                         (src \notin DOMAIN fs \/ src = C2_Target(src, C7_Date(r[FileModifyDate])))
                  /\ (FileModifyDate \notin DOMAIN r /\ FileCreateDate \in DOMAIN r) =>
                         (src \notin DOMAIN fs \/ src = C2_Target(src, C7_Date(r[FileCreateDate])))
                  /\ (FileModifyDate \notin DOMAIN r /\ FileCreateDate \notin DOMAIN r) =>
                         (src \in DOMAIN fs /\ fs[src] = fs_start[src])

\* the validity rule as stated: the tag is there, not empty, not the sentinel
C8_ValidStated(data) ==
    /\ DateTimeOriginal \in DOMAIN data
    /\ data[DateTimeOriginal] # <<>>
    /\ data[DateTimeOriginal] # SENTINEL

C8_InvalidStated(data) == ~C8_ValidStated(data)

\* the validity rule of the code: the tag is there and is not the sentinel
C8_ValidAmended(data) ==
    /\ DateTimeOriginal \in DOMAIN data
    /\ data[DateTimeOriginal] # SENTINEL

C8_InvalidAmended(data) == ~C8_ValidAmended(data)

\* C8, as stated: the classifier returns the records with a non-empty tag
\* other than the sentinel, and the others, each in the order of the input.
C8_PartitionStated ==
    pc = "classified" =>
        /\ valid_files = SelectSeq(metadata, C8_ValidStated)
        /\ invalid_files = SelectSeq(metadata, C8_InvalidStated)

\* C8, amended: the classifier returns the records with a tag other than
\* the sentinel (an empty tag counts as valid), and the others, each in the
\* order of the input.
C8_PartitionAmended ==
    pc = "classified" =>
        /\ valid_files = SelectSeq(metadata, C8_ValidAmended)
        /\ invalid_files = SelectSeq(metadata, C8_InvalidAmended)

\* three records classified: an empty tag among the valid, a missing tag and
\* the sentinel among the invalid
C8_Witness ==
    /\ pc = "classified"
    /\ Len(metadata) = 3
    /\ \E k \in 1..Len(valid_files) : valid_files[k][DateTimeOriginal] = <<>>
    /\ \E k \in 1..Len(invalid_files) : DateTimeOriginal \notin DOMAIN invalid_files[k]
    /\ \E k \in 1..Len(invalid_files) :
          DateTimeOriginal \in DOMAIN invalid_files[k] /\ invalid_files[k][DateTimeOriginal] = SENTINEL

\* C9: the collision loop ends only by returning, after renaming
\* old_filename onto a free candidate, after finding old_filename gone at a
\* free candidate, or after deleting a duplicate.
C9_LoopEnds ==
    [][(pc = "rename_loop" /\ pc' # "rename_loop")
       => /\ pc' = ret
          /\ err' = None
          /\ \/ /\ Candidate \notin DOMAIN fs
                /\ old_filename \in DOMAIN fs
                /\ DOMAIN fs' = (DOMAIN fs \ {old_filename}) \cup {Candidate}
                /\ fs'[Candidate] = fs[old_filename]
             \/ /\ Candidate \notin DOMAIN fs
                /\ old_filename \notin DOMAIN fs
                /\ fs' = fs
             \/ /\ Candidate \in DOMAIN fs
                /\ old_filename \in DOMAIN fs
                /\ Bytes(fs[Candidate]) = Bytes(fs[old_filename])
                /\ DOMAIN fs' = DOMAIN fs \ {old_filename}]_vars

\* C10: a step changes the file system only inside the collision loop, and
\* there only by renaming old_filename onto a path that did not exist or by
\* deleting old_filename; every other file keeps its path and content and
\* the number of files does not grow.
C10_Frame ==
    [][/\ fs' # fs => pc = "rename_loop"
       /\ \A p \in DOMAIN fs \ {old_filename} : p \in DOMAIN fs' /\ fs'[p] = fs[p]
       /\ \A q \in DOMAIN fs' \ DOMAIN fs :
             /\ old_filename \in DOMAIN fs
             /\ old_filename \notin DOMAIN fs'
             /\ fs'[q] = fs[old_filename]
       /\ (old_filename \in DOMAIN fs /\ old_filename \in DOMAIN fs') => fs'[old_filename] = fs[old_filename]
       /\ Cardinality(DOMAIN fs') <= Cardinality(DOMAIN fs)]_vars

\* of three files one was renamed, one deleted and one left alone
C10_Witness ==
    /\ Cardinality(DOMAIN fs_start) = 3
    /\ Cardinality(DOMAIN fs) = 2
    /\ \E p \in DOMAIN fs \ DOMAIN fs_start : \E q \in DOMAIN fs_start \ DOMAIN fs : fs[p] = fs_start[q]
    /\ \E p \in DOMAIN fs \cap DOMAIN fs_start : fs[p] = fs_start[p]

=============================================================================
